---- MODULE Spec2Model ----
(***************************************************************************)
(* evenk::BoundedQueue (src/evenk/bounded_queue.h): a bounded MPMC ring    *)
(* of ticketed slots with four slot wait strategies and a Finish flag.     *)
(*                                                                         *)
(* Every access to a shared atomic (head_, tail_, finish_, ticket_,        *)
(* wait_count_, lock_) and to a slot's value is one step of the calling    *)
(* thread; thread-local computation is folded into the step that loads     *)
(* its operands.                                                           *)
(***************************************************************************)
EXTENDS Integers, Sequences, FiniteSets, TLC

\* ------------------------------------------------------------------ bounds
\* Threads of the model; each specification uses cfg.np + cfg.nc of them.
NumThreads == 5
\* Spec: producers, consumers, Enqueue calls, Dequeue calls.
NumProducers == 2
NumConsumers == 2
MaxEnq == 3
MaxDeq == 3
\* Spec, ring of four slots with one producer and one consumer:
\* Enqueue calls, Dequeue calls.
RingMaxEnq == 5
RingMaxDeq == 5
\* FairSpec: producers, consumers, Enqueue calls, Dequeue calls.
FairProducers == 2
FairConsumers == 1
FairMaxEnq == 3
FairMaxDeq == 3
\* SpecQuiesced: producers, consumers, Dequeue calls (Enqueue calls: the ring size).
QuiescedProducers == 2
QuiescedConsumers == 2
QuiescedMaxDeq == 4
\* SpecOne: producers, consumers, Enqueue calls, Dequeue calls.
OneProducers == 2
OneConsumers == 1
OneMaxEnq == 2
OneMaxDeq == 2
\* SpecWrap: ticket width, producers, consumers, Enqueue calls, Dequeue calls.
WrapBits == 2
WrapProducers == 3
WrapConsumers == 2
WrapMaxEnq == 5
WrapMaxDeq == 3
\* Ticket width of the specifications in which no counter comes near the wrap.
WideBits == 16

Threads == 1..NumThreads
NoValue == 0
WaitTypes == {"NoWait", "Yield", "Futex", "Synch"}

VARIABLES
    cfg,         \* template arguments, constructor input and the run's bounds
    ticket,      \* ring_[i].ticket_
    value,       \* ring_[i].value
    wait_count,  \* ring_[i].wait_count_ (BoundedQueueFutexWait)
    lock,        \* ring_[i].lock_ is held (BoundedQueueSynchWait)
    head,        \* head_
    tail,        \* tail_
    finish,      \* finish_
    pc,          \* position of each thread inside Enqueue / Dequeue
    res,         \* the local `tail` / `head` of the call in progress
    cur,         \* the local current_ticket of WaitTail / WaitHead
    fpc,         \* position of the thread that calls Finish
    fi,          \* loop index i of Finish
    enqArg,      \* history: value passed to the k-th Enqueue in tail order
    deqRet,      \* history: result of the k-th Dequeue in head order
    deqOut,      \* history: value moved out by the k-th Dequeue in head order
    ctor,        \* how far the construction of the queue object has come
    spins,       \* the Backoff argument: -1 for none, else its false returns
    waiting,     \* the local `waiting` of WaitTail / WaitHead with a backoff
    bcount,      \* invocations of the call's backoff callable so far
    emp          \* the caller of Empty(): position, loaded head, result

vars == <<cfg, ticket, value, wait_count, lock, head, tail, finish,
          pc, res, cur, fpc, fi, enqArg, deqRet, deqOut,
          ctor, spins, waiting, bcount, emp>>

\* What a step inside Enqueue, Dequeue or Finish never changes.
env == <<cfg, ctor, spins, waiting, bcount, emp>>
\* The same for the first step of a call, which initializes its locals.
env0 == <<cfg, ctor, spins, emp>>

queue == <<ticket, value, wait_count, lock, head, tail, finish>>
hist == <<enqArg, deqRet, deqOut>>

\* ------------------------------------------------------------ pure helpers
mask_ == cfg.size - 1
Slots == 0..mask_

\* Mutant: the ticket is one bit narrower than the conversions assume.
Uint32Narrow(x) == x % (2 ^ (cfg.bits - 1))

\* std::uint32_t(x): the ticket keeps the low cfg.bits bits.
Uint32(x) == x % (2 ^ cfg.bits)

\* ring_[x & mask_]
SlotOf(x) == x % cfg.size

\* Finished(): finish_.load(relaxed)
Finished == finish

\* A run's parameters: ring size, wait strategy, ticket width, the number of
\* completed Enqueue/Dequeue pairs before the run, and the run's bounds.
Config(size, wt, bits, base, np, nc, me, md) ==
    [size |-> size, wait |-> wt, bits |-> bits, base |-> base,
     np |-> np, nc |-> nc, maxEnq |-> me, maxDeq |-> md]

\* No Empty() call is in progress and none has returned.
EmpIdle == [pc |-> "idle", head |-> 0, ret |-> "none"]

\* State left by the constructor, followed by c.base/c.size full wraps of
\* Enqueue/Dequeue pairs run to completion (base = 0: the constructor alone),
\* for callers that pass a backoff returning false n times (n = -1: none).
InitBackoffQueue(c, n) ==
    /\ cfg = c
    /\ ticket = [i \in 0..(c.size - 1) |-> Uint32(c.base + i)]
    /\ value = [i \in 0..(c.size - 1) |-> NoValue]
    /\ wait_count = [i \in 0..(c.size - 1) |-> 0]
    /\ lock = [i \in 0..(c.size - 1) |-> FALSE]
    /\ head = c.base
    /\ tail = c.base
    /\ finish = FALSE
    /\ pc = [t \in Threads |-> "idle"]
    /\ res = [t \in Threads |-> 0]
    /\ cur = [t \in Threads |-> 0]
    /\ fpc = "idle"
    /\ fi = 0
    /\ enqArg = <<>>
    /\ deqRet = <<>>
    /\ deqOut = <<>>
    /\ ctor = "constructed"
    /\ spins = n
    /\ waiting = [t \in Threads |-> FALSE]
    /\ bcount = [t \in Threads |-> 0]
    /\ emp = EmpIdle

\* The same for callers of the overloads without a backoff.
InitQueue(c) == InitBackoffQueue(c, -1)

\* A ring of two slots under contention, or a ring of four slots that one
\* producer fills and one consumer drains.
Init ==
    \E wt \in WaitTypes :
        \/ InitQueue(Config(2, wt, WideBits, 0, NumProducers, NumConsumers, MaxEnq, MaxDeq))
        \/ InitQueue(Config(4, wt, WideBits, 0, 1, 1, RingMaxEnq, RingMaxDeq))

\* ------------------------------------------------------- thread-local views
IsProducer(t) == t <= cfg.np
IsConsumer(t) == cfg.np < t /\ t <= cfg.np + cfg.nc
slot(t) == SlotOf(res[t])
\* Index of thread t's call in the histories (reservation order).
Call(t) == res[t] - cfg.base + 1

\* Mutant: WaitHead waits for the reservation itself, not for the published slot.
RequiredTicketUnpublished(t) == Uint32(res[t])

\* WaitTail / WaitHead: std::uint32_t(required_ticket).
RequiredTicket(t) == IF IsProducer(t) THEN Uint32(res[t]) ELSE Uint32(res[t] + 1)

\* Mutant: WaitTail does not wait.
AfterLoadNoWaitTail(t, c) ==
    IF IsProducer(t) THEN "enq_write"
    ELSE IF c = RequiredTicket(t) THEN "deq_move" ELSE "wh_finished"

\* Mutant: the wait loop calls WaitAndLoad whatever the backoff said.
LoopBodyWaitsAtOnce(t) == "wait"

\* The body of the wait loop after the shutdown test: WaitAndLoad in the
\* overloads without a backoff and once `waiting` is set, else the backoff.
LoopBody(t) == IF spins >= 0 /\ ~waiting[t] THEN "backoff" ELSE "wait"

\* Mutant: WaitHead does not wait.
AfterLoadNoWaitHead(t, c) ==
    IF IsConsumer(t) THEN "deq_move"
    ELSE IF c = RequiredTicket(t) THEN "enq_write" ELSE LoopBody(t)

\* The while-condition of WaitTail / WaitHead on a freshly loaded ticket c.
AfterLoad(t, c) ==
    IF c = RequiredTicket(t)
    THEN (IF IsProducer(t) THEN "enq_write" ELSE "deq_move")
    ELSE (IF IsProducer(t) THEN LoopBody(t) ELSE "wh_finished")

\* Mutant: WakeHead stores the reservation itself, which publishes nothing.
NewTicketUnpublished(t) ==
    IF IsProducer(t) THEN Uint32(res[t]) ELSE Uint32(res[t] + mask_ + 1)

\* Mutant: WakeTail advances the ticket by mask_, not by the ring size.
NewTicketShort(t) == IF IsProducer(t) THEN Uint32(res[t] + 1) ELSE Uint32(res[t] + mask_)

\* Mutant: WakeTail advances the ticket by one more than the ring size.
NewTicketLate(t) == IF IsProducer(t) THEN Uint32(res[t] + 1) ELSE Uint32(res[t] + mask_ + 2)

\* WakeHead(slot, tail + 1) / WakeTail(slot, head + mask_ + 1): the argument
\* is converted to std::uint32_t.
NewTicket(t) == IF IsProducer(t) THEN Uint32(res[t] + 1) ELSE Uint32(res[t] + mask_ + 1)

\* Enqueue returns / Dequeue returns true: the call is over.
Returned(t) ==
    /\ res' = [res EXCEPT ![t] = 0]
    /\ cur' = [cur EXCEPT ![t] = 0]
    /\ deqRet' = IF IsProducer(t) THEN deqRet ELSE [deqRet EXCEPT ![Call(t)] = "true"]
    /\ UNCHANGED <<enqArg, deqOut>>

\* pc after thread t's call returns while every thread parked at `parked` on
\* slot s is made runnable at `woken` (t = 0: the waker is the Finish caller).
WakeAll(t, s, parked, woken) ==
    [u \in Threads |->
        IF u = t THEN "idle"
        ELSE IF pc[u] = parked /\ slot(u) = s THEN woken
        ELSE pc[u]]

\* ------------------------------------------------------------------ Enqueue
\* The value a caller passes to Enqueue: the queue never reads a value, so
\* every call passes a value of its own, which makes the pairing observable.
ArgOf(t) == t + 1

EnqStart(t) ==
    /\ IsProducer(t) /\ pc[t] = "idle"
    /\ Len(enqArg) < cfg.maxEnq
    /\ tail' = tail + 1
    /\ res' = [res EXCEPT ![t] = tail]
    /\ enqArg' = Append(enqArg, ArgOf(tail))
    /\ pc' = [pc EXCEPT ![t] = "wt_load"]
    /\ waiting' = [waiting EXCEPT ![t] = FALSE]
    /\ bcount' = [bcount EXCEPT ![t] = 0]
    /\ UNCHANGED <<env0, ticket, value, wait_count, lock, head, finish, cur, fpc, fi,
                   deqRet, deqOut>>

WaitTailLoad(t) ==
    /\ pc[t] = "wt_load"
    /\ cur' = [cur EXCEPT ![t] = ticket[slot(t)]]
    /\ pc' = [pc EXCEPT ![t] = AfterLoad(t, ticket[slot(t)])]
    /\ UNCHANGED <<env, queue, res, fpc, fi, hist>>

EnqWrite(t) ==
    /\ pc[t] = "enq_write"
    /\ value' = [value EXCEPT ![slot(t)] = enqArg[Call(t)]]
    /\ pc' = [pc EXCEPT ![t] = "wake"]
    /\ UNCHANGED <<env, ticket, wait_count, lock, head, tail, finish, res, cur, fpc, fi,
                   hist>>

\* ------------------------------------------------------------------ Dequeue
DeqStart(t) ==
    /\ IsConsumer(t) /\ pc[t] = "idle"
    /\ Len(deqRet) < cfg.maxDeq
    /\ head' = head + 1
    /\ res' = [res EXCEPT ![t] = head]
    /\ deqRet' = Append(deqRet, "pending")
    /\ deqOut' = Append(deqOut, NoValue)
    /\ pc' = [pc EXCEPT ![t] = "wh_load"]
    /\ waiting' = [waiting EXCEPT ![t] = FALSE]
    /\ bcount' = [bcount EXCEPT ![t] = 0]
    /\ UNCHANGED <<env0, ticket, value, wait_count, lock, tail, finish, cur, fpc, fi,
                   enqArg>>

WaitHeadLoad(t) ==
    /\ pc[t] = "wh_load"
    /\ cur' = [cur EXCEPT ![t] = ticket[slot(t)]]
    /\ pc' = [pc EXCEPT ![t] = AfterLoad(t, ticket[slot(t)])]
    /\ UNCHANGED <<env, queue, res, fpc, fi, hist>>

\* Mutant: the shutdown test runs whether or not the flag is set.
WaitHeadFinishedIgnored(t) ==
    /\ pc[t] = "wh_finished"
    /\ pc' = [pc EXCEPT ![t] = "wh_tail"]
    /\ UNCHANGED <<env, queue, res, cur, fpc, fi, hist>>

\* if (Finished())
WaitHeadFinished(t) ==
    /\ pc[t] = "wh_finished"
    /\ pc' = [pc EXCEPT ![t] = IF Finished THEN "wh_tail" ELSE LoopBody(t)]
    /\ UNCHANGED <<env, queue, res, cur, fpc, fi, hist>>

\* The shutdown test of WaitHead on the loaded tail.
Abandon(required_ticket, tl) == required_ticket >= tl

\* Mutant: a Dequeue that gives up publishes its slot for the next wrap.
WaitHeadTailPublishes(t) ==
    /\ pc[t] = "wh_tail"
    /\ IF Abandon(res[t] + 1, tail)
       THEN /\ pc' = [pc EXCEPT ![t] = "idle"]
            /\ deqRet' = [deqRet EXCEPT ![Call(t)] = "false"]
            /\ ticket' = [ticket EXCEPT ![slot(t)] = NewTicket(t)]
            /\ res' = [res EXCEPT ![t] = 0]
            /\ cur' = [cur EXCEPT ![t] = 0]
       ELSE /\ pc' = [pc EXCEPT ![t] = LoopBody(t)]
            /\ UNCHANGED <<deqRet, res, cur, ticket>>
    /\ UNCHANGED <<env, value, wait_count, lock, head, tail, finish, fpc, fi, enqArg, deqOut>>

\* tail_.load(seq_cst); if (required_ticket >= tail) return false;
WaitHeadTail(t) ==
    /\ pc[t] = "wh_tail"
    /\ IF Abandon(res[t] + 1, tail)
       THEN /\ pc' = [pc EXCEPT ![t] = "idle"]
            /\ deqRet' = [deqRet EXCEPT ![Call(t)] = "false"]
            /\ res' = [res EXCEPT ![t] = 0]
            /\ cur' = [cur EXCEPT ![t] = 0]
       ELSE /\ pc' = [pc EXCEPT ![t] = LoopBody(t)]
            /\ UNCHANGED <<deqRet, res, cur>>
    /\ UNCHANGED <<env, queue, fpc, fi, enqArg, deqOut>>

DeqMove(t) ==
    /\ pc[t] = "deq_move"
    /\ deqOut' = [deqOut EXCEPT ![Call(t)] = value[slot(t)]]
    /\ pc' = [pc EXCEPT ![t] = "wake"]
    /\ UNCHANGED <<env, queue, res, cur, fpc, fi, enqArg, deqRet>>

\* ------------------------------------- BoundedQueueNoWait, BoundedQueueYieldWait
\* WaitAndLoad: return Load();
NoWaitWaitAndLoad(t) ==
    /\ pc[t] = "wait" /\ cfg.wait = "NoWait"
    /\ cur' = [cur EXCEPT ![t] = ticket[slot(t)]]
    /\ pc' = [pc EXCEPT ![t] = AfterLoad(t, ticket[slot(t)])]
    /\ UNCHANGED <<env, queue, res, fpc, fi, hist>>

\* WaitAndLoad: std::this_thread::yield(); return Load();
YieldWaitAndLoad(t) ==
    /\ pc[t] = "wait" /\ cfg.wait = "Yield"
    /\ cur' = [cur EXCEPT ![t] = ticket[slot(t)]]
    /\ pc' = [pc EXCEPT ![t] = AfterLoad(t, ticket[slot(t)])]
    /\ UNCHANGED <<env, queue, res, fpc, fi, hist>>

\* StoreAndWake: Store(value);
NoWaitStoreAndWake(t) ==
    /\ pc[t] = "wake" /\ cfg.wait = "NoWait"
    /\ ticket' = [ticket EXCEPT ![slot(t)] = NewTicket(t)]
    /\ pc' = [pc EXCEPT ![t] = "idle"]
    /\ Returned(t)
    /\ UNCHANGED <<env, value, wait_count, lock, head, tail, finish, fpc, fi>>

YieldStoreAndWake(t) ==
    /\ pc[t] = "wake" /\ cfg.wait = "Yield"
    /\ ticket' = [ticket EXCEPT ![slot(t)] = NewTicket(t)]
    /\ pc' = [pc EXCEPT ![t] = "idle"]
    /\ Returned(t)
    /\ UNCHANGED <<env, value, wait_count, lock, head, tail, finish, fpc, fi>>

\* -------------------------------------------------------- BoundedQueueFutexWait
\* wait_count_.fetch_add(1)
FutexCount(t) ==
    /\ pc[t] = "wait" /\ cfg.wait = "Futex"
    /\ wait_count' = [wait_count EXCEPT ![slot(t)] = @ + 1]
    /\ pc' = [pc EXCEPT ![t] = "fx_wait"]
    /\ UNCHANGED <<env, ticket, value, lock, head, tail, finish, res, cur, fpc, fi, hist>>

\* futex_wait(ticket_, value): the kernel parks the caller if the ticket
\* still equals value, and returns at once otherwise.
FutexParks(t) == ticket[slot(t)] = cur[t]

FutexWait(t) ==
    /\ pc[t] = "fx_wait"
    /\ pc' = [pc EXCEPT ![t] = IF FutexParks(t) THEN "fx_parked" ELSE "fx_dec"]
    /\ UNCHANGED <<env, queue, res, cur, fpc, fi, hist>>

\* futex_wait may return without a wake (a signal, a spurious return).
FutexSpurious(t) ==
    /\ pc[t] = "fx_parked"
    /\ pc' = [pc EXCEPT ![t] = "fx_dec"]
    /\ UNCHANGED <<env, queue, res, cur, fpc, fi, hist>>

\* Mutant: WaitAndLoad does not take its count back.
FutexUncountSkipped(t) ==
    /\ pc[t] = "fx_dec"
    /\ pc' = [pc EXCEPT ![t] = "fx_load"]
    /\ UNCHANGED <<env, queue, res, cur, fpc, fi, hist>>

\* wait_count_.fetch_sub(1)
FutexUncount(t) ==
    /\ pc[t] = "fx_dec"
    /\ wait_count' = [wait_count EXCEPT ![slot(t)] = (@ - 1) % (2 ^ cfg.bits)]
    /\ pc' = [pc EXCEPT ![t] = "fx_load"]
    /\ UNCHANGED <<env, ticket, value, lock, head, tail, finish, res, cur, fpc, fi, hist>>

\* return Load();
FutexLoad(t) ==
    /\ pc[t] = "fx_load"
    /\ cur' = [cur EXCEPT ![t] = ticket[slot(t)]]
    /\ pc' = [pc EXCEPT ![t] = AfterLoad(t, ticket[slot(t)])]
    /\ UNCHANGED <<env, queue, res, fpc, fi, hist>>

\* StoreAndWake: Store(value);
FutexStore(t) ==
    /\ pc[t] = "wake" /\ cfg.wait = "Futex"
    /\ ticket' = [ticket EXCEPT ![slot(t)] = NewTicket(t)]
    /\ pc' = [pc EXCEPT ![t] = "fx_fence"]
    /\ UNCHANGED <<env, value, wait_count, lock, head, tail, finish, res, cur, fpc, fi,
                   hist>>

\* Mutant: StoreAndWake wakes only when more than one waiter is counted.
MustWakeMany(count) == count > 1

\* The test of StoreAndWake on the loaded wait count.
MustWake(count) == count # 0

\* atomic_thread_fence(seq_cst); if (wait_count_.load(relaxed)) ...
FutexFence(t) ==
    /\ pc[t] = "fx_fence"
    /\ IF MustWake(wait_count[slot(t)])
       THEN /\ pc' = [pc EXCEPT ![t] = "fx_wake"]
            /\ UNCHANGED <<res, cur, hist>>
       ELSE /\ pc' = [pc EXCEPT ![t] = "idle"]
            /\ Returned(t)
    /\ UNCHANGED <<env, queue, fpc, fi>>

\* Wake(): futex_wake(ticket_, INT32_MAX)
FutexWake(t) ==
    /\ pc[t] = "fx_wake"
    /\ pc' = WakeAll(t, slot(t), "fx_parked", "fx_dec")
    /\ Returned(t)
    /\ UNCHANGED <<env, queue, fpc, fi>>

\* -------------------------------------------------------- BoundedQueueSynchWait
\* WaitAndLoad: LockGuard<LockType> guard(lock_);
SynchLock(t) ==
    /\ pc[t] = "wait" /\ cfg.wait = "Synch"
    /\ ~lock[slot(t)]
    /\ lock' = [lock EXCEPT ![slot(t)] = TRUE]
    /\ pc' = [pc EXCEPT ![t] = "sy_check"]
    /\ UNCHANGED <<env, ticket, value, wait_count, head, tail, finish, res, cur, fpc, fi,
                   hist>>

\* if (current_value == value) cond_.Wait(guard): the wait releases the lock
\* and parks in one step; otherwise the loaded ticket is returned and the
\* guard releases the lock.
SynchCheck(t) ==
    /\ pc[t] = "sy_check"
    /\ lock' = [lock EXCEPT ![slot(t)] = FALSE]
    /\ IF ticket[slot(t)] = cur[t]
       THEN /\ pc' = [pc EXCEPT ![t] = "sy_parked"]
            /\ UNCHANGED cur
       ELSE /\ cur' = [cur EXCEPT ![t] = ticket[slot(t)]]
            /\ pc' = [pc EXCEPT ![t] = AfterLoad(t, ticket[slot(t)])]
    /\ UNCHANGED <<env, ticket, value, wait_count, head, tail, finish, res, fpc, fi, hist>>

\* A condition wait may return without a notification.
SynchSpurious(t) ==
    /\ pc[t] = "sy_parked"
    /\ pc' = [pc EXCEPT ![t] = "sy_relock"]
    /\ UNCHANGED <<env, queue, res, cur, fpc, fi, hist>>

\* cond_.Wait returns with the lock held again.
SynchRelock(t) ==
    /\ pc[t] = "sy_relock"
    /\ ~lock[slot(t)]
    /\ lock' = [lock EXCEPT ![slot(t)] = TRUE]
    /\ pc' = [pc EXCEPT ![t] = "sy_reload"]
    /\ UNCHANGED <<env, ticket, value, wait_count, head, tail, finish, res, cur, fpc, fi,
                   hist>>

\* current_value = ticket_.load(relaxed); return current_value; (guard unlocks)
SynchReload(t) ==
    /\ pc[t] = "sy_reload"
    /\ lock' = [lock EXCEPT ![slot(t)] = FALSE]
    /\ cur' = [cur EXCEPT ![t] = ticket[slot(t)]]
    /\ pc' = [pc EXCEPT ![t] = AfterLoad(t, ticket[slot(t)])]
    /\ UNCHANGED <<env, ticket, value, wait_count, head, tail, finish, res, fpc, fi, hist>>

\* StoreAndWake: LockGuard<LockType> guard(lock_);
SynchStoreLock(t) ==
    /\ pc[t] = "wake" /\ cfg.wait = "Synch"
    /\ ~lock[slot(t)]
    /\ lock' = [lock EXCEPT ![slot(t)] = TRUE]
    /\ pc' = [pc EXCEPT ![t] = "sy_store"]
    /\ UNCHANGED <<env, ticket, value, wait_count, head, tail, finish, res, cur, fpc, fi,
                   hist>>

\* ticket_.store(value, relaxed); cond_.NotifyAll(); (guard unlocks)
SynchStore(t) ==
    /\ pc[t] = "sy_store"
    /\ ticket' = [ticket EXCEPT ![slot(t)] = NewTicket(t)]
    /\ lock' = [lock EXCEPT ![slot(t)] = FALSE]
    /\ pc' = WakeAll(t, slot(t), "sy_parked", "sy_relock")
    /\ Returned(t)
    /\ UNCHANGED <<env, value, wait_count, head, tail, finish, fpc, fi>>

\* ------------------------------------------------------------------- Finish
\* Position of the Finish caller after ring_[fi].Wake() returned.
FinishNext == IF fi + 1 < mask_ + 1 THEN "wake" ELSE "done"

\* Mutant: Finish also discards what is stored.
FinishStoreDrains ==
    /\ fpc = "idle"
    /\ finish' = TRUE
    /\ head' = tail
    /\ fi' = 0
    /\ fpc' = "wake"
    /\ UNCHANGED <<env, ticket, value, wait_count, lock, tail, pc, res, cur, hist>>

\* finish_.store(true, relaxed);
FinishStore ==
    /\ fpc = "idle"
    /\ finish' = TRUE
    /\ fi' = 0
    /\ fpc' = "wake"
    /\ UNCHANGED <<env, ticket, value, wait_count, lock, head, tail, pc, res, cur, hist>>

\* ring_[i].Wake() of BoundedQueueNoWait and BoundedQueueYieldWait: empty.
FinishWakeNone ==
    /\ fpc = "wake" /\ cfg.wait \in {"NoWait", "Yield"}
    /\ fi' = fi + 1
    /\ fpc' = FinishNext
    /\ UNCHANGED <<env, queue, pc, res, cur, hist>>

\* ring_[i].Wake() of BoundedQueueFutexWait: futex_wake(ticket_, INT32_MAX)
FinishWakeFutex ==
    /\ fpc = "wake" /\ cfg.wait = "Futex"
    /\ pc' = WakeAll(0, fi, "fx_parked", "fx_dec")
    /\ fi' = fi + 1
    /\ fpc' = FinishNext
    /\ UNCHANGED <<env, queue, res, cur, hist>>

\* ring_[i].Wake() of BoundedQueueSynchWait: LockGuard<LockType> guard(lock_);
FinishWakeLock ==
    /\ fpc = "wake" /\ cfg.wait = "Synch"
    /\ ~lock[fi]
    /\ lock' = [lock EXCEPT ![fi] = TRUE]
    /\ fpc' = "notify"
    /\ UNCHANGED <<env, ticket, value, wait_count, head, tail, finish, pc, res, cur, fi,
                   hist>>

\* cond_.NotifyAll(); (guard unlocks)
FinishWakeNotify ==
    /\ fpc = "notify"
    /\ pc' = WakeAll(0, fi, "sy_parked", "sy_relock")
    /\ lock' = [lock EXCEPT ![fi] = FALSE]
    /\ fi' = fi + 1
    /\ fpc' = FinishNext
    /\ UNCHANGED <<env, ticket, value, wait_count, head, tail, finish, res, cur, hist>>

\* ------------------------------------------------------------ specification
\* A caller starts a call: its first statement is the fetch-add.
CallStep(t) == EnqStart(t) \/ DeqStart(t)

\* Statements of Enqueue, Dequeue, WaitTail and WaitHead common to all strategies.
CoreStep(t) ==
    \/ WaitTailLoad(t)
    \/ EnqWrite(t)
    \/ WaitHeadLoad(t)
    \/ WaitHeadFinished(t)
    \/ WaitHeadTail(t)
    \/ DeqMove(t)

NoWaitStep(t) == NoWaitWaitAndLoad(t) \/ NoWaitStoreAndWake(t)

YieldStep(t) == YieldWaitAndLoad(t) \/ YieldStoreAndWake(t)

FutexStep(t) ==
    \/ FutexCount(t)
    \/ FutexWait(t)
    \/ FutexUncount(t)
    \/ FutexLoad(t)
    \/ FutexStore(t)
    \/ FutexFence(t)
    \/ FutexWake(t)

SynchStep(t) ==
    \/ SynchLock(t)
    \/ SynchCheck(t)
    \/ SynchRelock(t)
    \/ SynchReload(t)
    \/ SynchStoreLock(t)
    \/ SynchStore(t)

\* A step of a call in progress.
RunStep(t) == CoreStep(t) \/ NoWaitStep(t) \/ YieldStep(t) \/ FutexStep(t) \/ SynchStep(t)

Spurious(t) == FutexSpurious(t) \/ SynchSpurious(t)

\* The wake loop of Finish.
FinishRun == FinishWakeNone \/ FinishWakeFutex \/ FinishWakeLock \/ FinishWakeNotify

Next ==
    \/ \E t \in Threads : CallStep(t)
    \/ \E t \in Threads : RunStep(t)
    \/ \E t \in Threads : Spurious(t)
    \/ FinishStore
    \/ FinishRun

Spec == Init /\ [][Next]_vars

\* Scheduling: a thread inside a call keeps running, and a thread blocked on
\* a mutex gets it when it is released again and again; whether and when a
\* caller starts Enqueue, Dequeue or Finish is up to the caller, and no
\* spurious return of a wait is ever owed.
Fairness ==
    /\ \A t \in Threads : SF_vars(RunStep(t))
    /\ SF_vars(FinishRun)

FairInit ==
    \E wt \in WaitTypes :
        InitQueue(Config(2, wt, WideBits, 0, FairProducers, FairConsumers,
                         FairMaxEnq, FairMaxDeq))

FairSpec == FairInit /\ [][Next]_vars /\ Fairness

\* One slot.
InitOne ==
    \E wt \in WaitTypes :
        InitQueue(Config(1, wt, WideBits, 0, OneProducers, OneConsumers,
                         OneMaxEnq, OneMaxDeq))

SpecOne == InitOne /\ [][Next]_vars

\* The default template argument (WaitType = BoundedQueueNoWait) alone.
NextNoWait ==
    \/ \E t \in Threads : CallStep(t)
    \/ \E t \in Threads : CoreStep(t)
    \/ \E t \in Threads : NoWaitStep(t)
    \/ FinishStore
    \/ FinishWakeNone

\* Narrow tickets, starting one wrap of the ring before the ticket wraps,
\* with WrapProducers or one producer fewer.
InitWrap ==
    \E np \in {WrapProducers - 1, WrapProducers} :
        InitQueue(Config(2, "NoWait", WrapBits, 2 ^ WrapBits - 2, np, WrapConsumers,
                         WrapMaxEnq, WrapMaxDeq))

SpecWrap == InitWrap /\ [][NextNoWait]_vars

\* Callers that finish production first: every Enqueue has returned before
\* the first Dequeue and before Finish, and none starts afterwards.
ProducersIdle == \A t \in Threads : IsProducer(t) => pc[t] = "idle"

QuiescedEnqStart(t) == Len(deqRet) = 0 /\ fpc = "idle" /\ EnqStart(t)

QuiescedDeqStart(t) == ProducersIdle /\ DeqStart(t)

QuiescedFinishStore == ProducersIdle /\ FinishStore

NextQuiesced ==
    \/ \E t \in Threads : QuiescedEnqStart(t)
    \/ \E t \in Threads : QuiescedDeqStart(t)
    \/ \E t \in Threads : RunStep(t)
    \/ \E t \in Threads : Spurious(t)
    \/ QuiescedFinishStore
    \/ FinishRun

InitQuiesced ==
    \E wt \in WaitTypes :
        InitQueue(Config(2, wt, WideBits, 0, QuiescedProducers, QuiescedConsumers,
                         2, QuiescedMaxDeq))

SpecQuiesced == InitQuiesced /\ [][NextQuiesced]_vars

\* ------------------------------------------------------------------- claims
Calls(log) == 1..Len(log)

\* C1: FIFO pairing without duplication.  With at least two slots, a Dequeue
\* that returned true moved out exactly the value passed to the Enqueue that
\* holds the same reservation; so no value is returned twice and no value is
\* returned that was never passed to Enqueue.
C1_FifoPairing ==
    cfg.size >= 2 =>
        /\ \A k \in Calls(deqRet) :
              deqRet[k] = "true" => k <= Len(enqArg) /\ deqOut[k] = enqArg[k]
        /\ \A j, k \in Calls(deqRet) :
              deqRet[j] = "true" /\ deqRet[k] = "true" /\ j # k => deqOut[j] # deqOut[k]
        /\ \A k \in Calls(deqRet) :
              deqRet[k] = "true" => \E j \in Calls(enqArg) : deqOut[k] = enqArg[j]

\* Three Dequeues returned true, the third from a slot in its second wrap.
C1_Witness ==
    /\ cfg.size = 2
    /\ Len(deqRet) >= 3
    /\ \A k \in 1..3 : deqRet[k] = "true" /\ deqOut[k] = ArgOf(k - 1)

\* C3 as claimed: a Dequeue returns false only when the flag is set and its
\* reservation is not below the tail it loads.
C3_AbandonOnlyUnreserved ==
    [][\A t \in Threads :
          pc[t] = "wh_tail" /\ pc'[t] = "idle" => finish /\ res[t] >= tail]_vars

\* C8: a Dequeue returns false only after the finish flag was set.
C8_FalseOnlyAfterFinish ==
    \A k \in Calls(deqRet) : deqRet[k] = "false" => finish

\* A Dequeue returned false.
C8_Witness == \E k \in Calls(deqRet) : deqRet[k] = "false" /\ finish

\* Thread t has left its wait loop and has not yet stored the slot's new ticket.
Owns(t) == pc[t] \in {"enq_write", "deq_move", "wake", "sy_store"}

\* Thread t is inside a call and has not yet stored the slot's new ticket.
BeforeStore(t) == pc[t] \notin {"idle", "fx_fence", "fx_wake"}

\* The k-th Enqueue (in tail order) has stored its slot's new ticket.
EnqPublished(k) ==
    /\ k \in Calls(enqArg)
    /\ ~\E p \in Threads : IsProducer(p) /\ BeforeStore(p) /\ Call(p) = k

\* The k-th Dequeue (in head order) has stored its slot's new ticket.
DeqPublished(k) ==
    /\ k \in Calls(deqRet)
    /\ deqRet[k] # "false"
    /\ ~\E c \in Threads : IsConsumer(c) /\ BeforeStore(c) /\ Call(c) = k

\* The k-th Enqueue has written its value into the slot.
EnqWritten(k) ==
    /\ k \in Calls(enqArg)
    /\ ~\E p \in Threads :
          IsProducer(p) /\ Call(p) = k /\ pc[p] \notin {"idle", "wake", "sy_store", "fx_fence", "fx_wake"}

\* The k-th Dequeue has moved a value out of the slot.
DeqMoved(k) ==
    /\ k \in Calls(deqRet)
    /\ deqRet[k] # "false"
    /\ ~\E c \in Threads :
          IsConsumer(c) /\ Call(c) = k /\ pc[c] \notin {"idle", "wake", "sy_store", "fx_fence", "fx_wake"}

\* Every thread past its wait loop holds the slot in the wrap of its own
\* reservation: a producer after the Dequeue one wrap back has published, a
\* consumer after the Enqueue of the same reservation has published.
RightWrap ==
    \A t \in Threads :
        Owns(t) =>
            IF IsProducer(t)
            THEN Call(t) > cfg.size => DeqPublished(Call(t) - cfg.size)
            ELSE EnqPublished(Call(t))

Pairing ==
    \A k \in Calls(deqRet) :
        deqRet[k] = "true" => k <= Len(enqArg) /\ deqOut[k] = enqArg[k]

\* C6 as claimed: with one slot, an Enqueue does not write the slot before
\* the value of the reservation before it has been moved out, and every
\* Dequeue that returns true returns the value of its own reservation.
C6_Handoff ==
    cfg.size = 1 =>
        /\ \A p \in Threads :
              IsProducer(p) /\ Owns(p) /\ Call(p) > 1 => DeqMoved(Call(p) - 1)
        /\ Pairing

\* C9: after quiesced production of k <= N values, the Dequeue with
\* reservation h < k is served without waiting and returns true with the
\* value of reservation h, and a Dequeue with reservation h >= k moves
\* nothing out and never returns true.
C9_FinishAfterQuiesced ==
    \A k \in Calls(deqRet) :
        IF k <= Len(enqArg)
        THEN /\ deqRet[k] # "false"
             /\ deqRet[k] = "true" => deqOut[k] = enqArg[k]
             /\ \A c \in Threads :
                   IsConsumer(c) /\ pc[c] # "idle" /\ Call(c) = k
                       => pc[c] \in {"wh_load", "deq_move", "wake", "fx_fence", "fx_wake",
                                     "sy_store"}
        ELSE deqRet[k] # "true" /\ deqOut[k] = NoValue

\* Two values were produced, four Dequeues called: two returned true with
\* the values in order, two returned false.
C9_Witness ==
    /\ Len(enqArg) = 2 /\ Len(deqRet) = 4
    /\ deqRet = <<"true", "true", "false", "false">>
    /\ deqOut = <<ArgOf(0), ArgOf(1), NoValue, NoValue>>

\* The in-flight window of the ticket: on one slot, at most 2^bits / size
\* Enqueue calls and as many Dequeue calls are in progress at a time.
WindowFits ==
    /\ cfg.np * cfg.size <= 2 ^ cfg.bits
    /\ cfg.nc * cfg.size <= 2 ^ cfg.bits

AllIdle == \A t \in Threads : pc[t] = "idle"

\* The threads FairSpec runs.
FairProducerIds == 1..FairProducers
FairConsumerIds == (FairProducers + 1)..(FairProducers + FairConsumers)
FairThreadIds == 1..(FairProducers + FairConsumers)

\* C2 as claimed: once Finish has returned and no Enqueue is in progress,
\* every Dequeue in progress returns.
C2_ShutdownLiveness ==
    \A t \in FairConsumerIds :
        (fpc = "done" /\ ProducersIdle /\ pc[t] # "idle")
            ~> (pc[t] = "idle")

\* Every value passed to Enqueue was returned by the Dequeue of the same
\* reservation, and by no other.
AllDelivered ==
    /\ AllIdle
    /\ \A k \in Calls(enqArg) : deqRet[k] = "true" /\ deqOut[k] = enqArg[k]
    /\ \A j, k \in Calls(deqRet) : j # k => deqOut[j] # deqOut[k]

\* C4: no loss without shutdown.  While Finish is not called and as many
\* Dequeue as Enqueue calls have been made, every call completes and every
\* value is delivered exactly once, unless Finish or a further call comes.
C4_NoLoss ==
    (cfg.size >= 2 /\ fpc = "idle" /\ Len(enqArg) = Len(deqRet))
        ~> (fpc # "idle" \/ Len(enqArg) # Len(deqRet) \/ AllDelivered)

\* Three values went through a ring of two slots and Finish was never called.
C4_Witness ==
    /\ cfg.size = 2 /\ fpc = "idle" /\ ~finish
    /\ Len(enqArg) = 3 /\ Len(deqRet) = 3
    /\ AllDelivered

\* The k-th Enqueue has left its wait loop.
EnqPastWait(k) ==
    \/ EnqWritten(k)
    \/ \E p \in Threads : IsProducer(p) /\ Call(p) = k /\ pc[p] = "enq_write"

\* Values written into the ring and not yet moved out.
Stored ==
    Cardinality({k \in Calls(enqArg) : EnqWritten(k)})
        - Cardinality({k \in Calls(deqRet) : DeqMoved(k)})

\* C5: a full ring blocks the producer.  An Enqueue whose reservation is N
\* or more does not leave its wait loop before the Dequeue one wrap back has
\* published the slot; at most N values are stored and not moved out; and
\* once that Dequeue has published, the Enqueue completes.
C5_FullRingBlocks ==
    /\ [](cfg.size >= 2 =>
            /\ \A k \in Calls(enqArg) :
                  k > cfg.size /\ EnqPastWait(k) => DeqPublished(k - cfg.size)
            /\ Stored <= cfg.size)
    /\ \A p \in FairProducerIds :
          (/\ cfg.size >= 2 /\ pc[p] # "idle"
           /\ Call(p) > cfg.size /\ DeqPublished(Call(p) - cfg.size))
              ~> (pc[p] = "idle")

\* The third Enqueue into a ring of two slots has written its value after
\* the first Dequeue published the slot, the second value still stored.
C5_Witness ==
    /\ cfg.size = 2
    /\ EnqWritten(3) /\ DeqPublished(1)
    /\ Len(deqRet) = 1
    /\ Stored = 2

\* Thread t is inside WaitAndLoad of a blocking strategy.
InWaitAndLoad(t) ==
    pc[t] \in {"fx_wait", "fx_parked", "fx_dec", "fx_load",
               "sy_check", "sy_parked", "sy_relock", "sy_reload"}

\* Thread t, inside WaitAndLoad(v), is behind a StoreAndWake(v') with v' # v.
Behind(t) == InWaitAndLoad(t) /\ ticket[slot(t)] # cur[t]

\* The ticket the first StoreAndWake after ticket v stores into slot s.
TicketAfter(s, v) == IF SlotOf(v) = s THEN v + 1 ELSE v + mask_

\* C7 as claimed: a WaitAndLoad(v) that is behind a StoreAndWake(v') returns,
\* and it returns v'.
C7_ObservesStore ==
    /\ \A t \in FairThreadIds : Behind(t) ~> ~InWaitAndLoad(t)
    /\ [][\A t \in Threads :
            Behind(t) /\ ~InWaitAndLoad(t)' => cur'[t] = TicketAfter(slot(t), cur[t])]_vars

\* C7 as amended: a WaitAndLoad(v) that is behind a StoreAndWake(v') returns,
\* and it returns the slot's ticket of that moment, which is not v: v' or a
\* ticket stored after v'.
C7_NoLostWakeup ==
    /\ \A t \in FairThreadIds : Behind(t) ~> ~InWaitAndLoad(t)
    /\ [][\A t \in Threads :
            Behind(t) /\ ~InWaitAndLoad(t)'
                => cur'[t] = ticket[slot(t)] /\ cur'[t] # cur[t]]_vars

\* A thread is parked in futex_wait behind a store whose wake is pending.
C7_Witness ==
    \E t, u \in Threads :
        /\ pc[t] = "fx_parked" /\ ticket[slot(t)] # cur[t]
        /\ pc[u] \in {"fx_fence", "fx_wake"} /\ slot(u) = slot(t)

\* ---------------------------------------------------------- move constructor
\* SpecMove: producers, consumers, Enqueue calls, Dequeue calls (of the
\* source, and again of the new queue).
MoveProducers == 1
MoveConsumers == 1
MoveMaxEnq == 2
MoveMaxDeq == 2

\* BoundedQueue(BoundedQueue &&other), called when no operation is in
\* progress on other: ring_{other.ring_}, mask_{other.mask_}, finish_{false},
\* head_{0}, tail_{0}.  The slots are those of the source; from here on the
\* model follows the new object, whose histories start empty.
MoveConstruct ==
    /\ ctor = "constructed"
    /\ AllIdle /\ fpc \in {"idle", "done"} /\ emp.pc = "idle"
    /\ ctor' = "moved"
    /\ finish' = FALSE
    /\ head' = 0
    /\ tail' = 0
    /\ fpc' = "idle"
    /\ fi' = 0
    /\ enqArg' = <<>>
    /\ deqRet' = <<>>
    /\ deqOut' = <<>>
    /\ UNCHANGED <<cfg, ticket, value, wait_count, lock, pc, res, cur,
                   spins, waiting, bcount, emp>>

NextMove == Next \/ MoveConstruct

InitMove ==
    \E wt \in WaitTypes :
        InitQueue(Config(2, wt, WideBits, 0, MoveProducers, MoveConsumers,
                         MoveMaxEnq, MoveMaxDeq))

SpecMove == InitMove /\ [][NextMove]_vars

\* C11 as claimed: a queue move-constructed from a source at rest carries the
\* source's head, tail, slot tickets and stored values.
C11_MoveKeepsState ==
    [][ctor = "constructed" /\ ctor' = "moved"
          => head' = head /\ tail' = tail /\ ticket' = ticket /\ value' = value]_vars

\* ---------------------------------------------------------------- constructor
\* SpecCtor: width of std::uint32_t; every size of that width is tried.
CtorBits == 6

RECURSIVE BitAnd(_, _)
\* a & b
BitAnd(a, b) ==
    IF a = 0 \/ b = 0 THEN 0
    ELSE (a % 2) * (b % 2) + 2 * BitAnd(a \div 2, b \div 2)

\* mask_{size - 1}, in std::uint32_t arithmetic.
MaskOf(size) == Uint32(size - 1)

\* Mutant: the constructor does not test for size 0.
InvalidSizeZeroAccepted(size) == BitAnd(size, MaskOf(size)) # 0

\* if (size == 0 || (size & mask_) != 0) throw std::invalid_argument
InvalidSize(size) == size = 0 \/ BitAnd(size, MaskOf(size)) # 0

\* Raw storage for a queue object and the size its constructor is given.
\* What the members hold before construction is arbitrary.
InitCtor ==
    \E size \in 0..(2 ^ CtorBits - 1), wt \in WaitTypes :
        /\ cfg = Config(size, wt, CtorBits, 0, 0, 0, 0, 0)
        /\ ctor = "pending"
        /\ ticket = <<>> /\ value = <<>> /\ wait_count = <<>> /\ lock = <<>>
        /\ head \in {0, 1} /\ tail \in {0, 1} /\ finish \in BOOLEAN
        /\ pc = [t \in Threads |-> "idle"]
        /\ res = [t \in Threads |-> 0]
        /\ cur = [t \in Threads |-> 0]
        /\ fpc = "idle" /\ fi = 0
        /\ enqArg = <<>> /\ deqRet = <<>> /\ deqOut = <<>>
        /\ spins = -1
        /\ waiting = [t \in Threads |-> FALSE]
        /\ bcount = [t \in Threads |-> 0]
        /\ emp = EmpIdle

\* throw std::invalid_argument: no object comes to exist.
ConstructInvalid ==
    /\ ctor = "pending"
    /\ InvalidSize(cfg.size)
    /\ ctor' = "invalid_argument"
    /\ UNCHANGED <<cfg, queue, pc, res, cur, fpc, fi, hist, spins, waiting, bcount, emp>>

\* posix_memalign fails: throw std::bad_alloc.
ConstructNoMemory ==
    /\ ctor = "pending"
    /\ ~InvalidSize(cfg.size)
    /\ ctor' = "bad_alloc"
    /\ UNCHANGED <<cfg, queue, pc, res, cur, fpc, fi, hist, spins, waiting, bcount, emp>>

\* finish_{false}, head_{0}, tail_{0}; ring_ = new (ring) Slot[size];
\* ring_[i].Initialize(i) for every i < size.
ConstructRing ==
    /\ ctor = "pending"
    /\ ~InvalidSize(cfg.size)
    /\ ctor' = "constructed"
    /\ finish' = FALSE
    /\ head' = 0
    /\ tail' = 0
    /\ ticket' = [i \in 0..(cfg.size - 1) |-> Uint32(i)]
    /\ value' = [i \in 0..(cfg.size - 1) |-> NoValue]
    /\ wait_count' = [i \in 0..(cfg.size - 1) |-> 0]
    /\ lock' = [i \in 0..(cfg.size - 1) |-> FALSE]
    /\ UNCHANGED <<cfg, pc, res, cur, fpc, fi, hist, spins, waiting, bcount, emp>>

NextCtor == ConstructInvalid \/ ConstructNoMemory \/ ConstructRing

SpecCtor == InitCtor /\ [][NextCtor]_vars

IsPowerOfTwo(n) == \E k \in 0..CtorBits : n = 2 ^ k

\* C12: the constructor fails with invalid_argument exactly when size is 0
\* or not a power of two; on success slot i has ticket i for every i < size,
\* head = tail = 0 and the finish flag is false.
C12_ConstructorValidates ==
    ctor # "pending" =>
        /\ ctor = "invalid_argument" <=> (cfg.size = 0 \/ ~IsPowerOfTwo(cfg.size))
        /\ ctor = "constructed" =>
              /\ DOMAIN ticket = 0..(cfg.size - 1)
              /\ \A i \in DOMAIN ticket : ticket[i] = i
              /\ head = 0 /\ tail = 0 /\ ~finish

\* The largest power of two was accepted and its ring initialized.
C12_Witness ==
    /\ ctor = "constructed"
    /\ cfg.size = 2 ^ (CtorBits - 1)
    /\ ticket[cfg.size - 1] = cfg.size - 1

\* --------------------------------------------------- slots, tickets, frames
\* C13: exclusive slot ownership.  With at least two slots, no two threads
\* are at the same time between leaving their wait loop and storing the new
\* ticket of the same slot.
C13_ExclusiveOwnership ==
    cfg.size >= 2 =>
        \A t, u \in Threads : t # u /\ Owns(t) /\ Owns(u) => slot(t) # slot(u)

\* A producer owns a slot in its second wrap while a consumer owns another slot.
C13_Witness ==
    \E t, u \in Threads :
        /\ IsProducer(t) /\ IsConsumer(u)
        /\ Owns(t) /\ Owns(u)
        /\ res[t] >= cfg.size /\ slot(t) # slot(u)

\* Thread t stores its slot's new ticket in this step.
StoreStep(t) ==
    \/ pc[t] = "wake" /\ cfg.wait # "Synch" /\ pc'[t] # "wake"
    \/ pc[t] = "sy_store" /\ pc'[t] # "sy_store"

\* C14: slot ticket sequence.  The ticket of slot i starts at i and changes
\* only to the next of i, i+1, i+N, i+N+1, ..., so it only increases; a
\* producer's store changes it from t to t+1, a consumer's from h+1 to h+N.
C14_TicketSequence ==
    /\ \A i \in Slots : ticket[i] = i
    /\ [](\A i \in Slots : SlotOf(ticket[i]) \in {i, SlotOf(i + 1)})
    /\ [][\A i \in Slots :
            ticket'[i] # ticket[i]
                => ticket'[i] > ticket[i] /\ ticket'[i] = TicketAfter(i, ticket[i])]_vars
    /\ [][\A t \in Threads :
            StoreStep(t) =>
                IF IsProducer(t)
                THEN ticket[slot(t)] = res[t] /\ ticket'[slot(t)] = res[t] + 1
                ELSE ticket[slot(t)] = res[t] + 1 /\ ticket'[slot(t)] = res[t] + cfg.size]_vars

\* A slot has been through a whole wrap and is published in its second.
C14_Witness == \E i \in Slots : ticket[i] = i + cfg.size + 1

\* Positions of a Dequeue inside the wait loop of WaitHead.
WaitLoop ==
    {"wh_load", "wh_finished", "wh_tail", "wait", "backoff", "bo_load",
     "fx_wait", "fx_parked", "fx_dec", "fx_load",
     "sy_check", "sy_parked", "sy_relock", "sy_reload"}

\* C17: a Dequeue that returns false leaves the slot and the output untouched.
\* Its output is never written; the step that returns false changes nothing
\* of the queue; no step it takes in its wait loop changes a ticket, a value
\* or an output; a Dequeue that has left the wait loop does not return
\* false; and head counts every Dequeue call, the abandoned ones included.
C17_FalseLeavesUntouched ==
    /\ [](\A k \in Calls(deqRet) : deqRet[k] = "false" => deqOut[k] = NoValue)
    /\ [](head = cfg.base + Len(deqRet))
    /\ [][\A t \in Threads :
            IsConsumer(t) /\ pc[t] # "idle" /\ deqRet'[Call(t)] = "false"
                => UNCHANGED <<queue, deqOut>>]_vars
    /\ [][\A t \in Threads :
            IsConsumer(t) /\ pc[t] \in WaitLoop /\ RunStep(t)
                => UNCHANGED <<ticket, value, deqOut, head, tail, finish>>]_vars
    /\ [][\A t \in Threads :
            IsConsumer(t) /\ pc[t] \notin WaitLoop \cup {"idle"}
                => deqRet'[Call(t)] # "false"]_vars

\* A Dequeue returned false, its slot's ticket is still the one it found, and
\* head stays past its reservation.
C17_Witness ==
    \E k \in Calls(deqRet) :
        /\ deqRet[k] = "false"
        /\ ticket[SlotOf(k - 1)] = k - 1
        /\ head >= k /\ head > tail

\* C18: Finish is a one-way flag.  The flag is never reset; the steps of
\* Finish set it and leave head, tail, tickets and values alone; and
\* Finished() is true from the store on.
C18_FinishOneWay ==
    /\ [][Finished => Finished']_vars
    /\ [][fpc = "idle" /\ fpc' # "idle" => ~Finished /\ Finished']_vars
    /\ [][fpc' # fpc \/ fi' # fi
            => UNCHANGED <<ticket, value, head, tail, wait_count>>]_vars
    /\ [](fpc # "idle" => Finished)

\* Finish has returned while a value is stored and a Dequeue is in progress.
C18_Witness ==
    /\ fpc = "done" /\ Finished
    /\ \E k \in Calls(enqArg) : EnqPublished(k) /\ k > Len(deqRet)
    /\ \E t \in Threads : IsConsumer(t) /\ pc[t] # "idle"

\* Threads that have counted themselves as waiters of slot s and not yet
\* taken the count back.
Counted(s) == {t \in Threads : pc[t] \in {"fx_wait", "fx_parked", "fx_dec"} /\ slot(t) = s}

\* C20: futex waiter-count accounting.  The wait count of a slot is the
\* number of threads between the increment and the decrement of WaitAndLoad
\* on it: it never underflows, counts every parked thread and is 0 when no
\* thread is inside WaitAndLoad on the slot.
C20_WaitCountAccounting ==
    \A s \in Slots :
        /\ wait_count[s] = Cardinality(Counted(s))
        /\ wait_count[s] <= NumThreads
        /\ \A t \in Threads : pc[t] = "fx_parked" /\ slot(t) = s => wait_count[s] >= 1
        /\ (\A t \in Threads : slot(t) = s => ~InWaitAndLoad(t)) => wait_count[s] = 0

\* Two threads are counted on one slot, one of them parked.
C20_Witness ==
    \E s \in Slots :
        /\ wait_count[s] = 2
        /\ \E t \in Threads : pc[t] = "fx_parked" /\ slot(t) = s

\* ------------------------------------------------------ abandoned reservations
\* The value of the k-th Enqueue was returned by some Dequeue.
Delivered(k) ==
    /\ k \in Calls(enqArg)
    /\ \E j \in Calls(deqRet) : deqRet[j] = "true" /\ deqOut[j] = enqArg[k]

\* The Dequeue of the k-th reservation returned false.
Abandoned(k) == k \in Calls(deqRet) /\ deqRet[k] = "false"

\* C15 as claimed: when the Dequeue of reservation h has returned false and
\* the Enqueue of reservation h completes afterwards, a Dequeue called after
\* that leads to a Dequeue returning true with that value.
C15_AbandonedPickedUp ==
    \A k \in 1..FairMaxDeq :
        []((Abandoned(k) /\ ~EnqPublished(k))
              => []((EnqPublished(k) /\ Len(deqRet) = k)
                      => [](Len(deqRet) > k => <>Delivered(k))))

\* ------------------------------------------------------------------ backoff
\* SpecBackoff: producers, consumers, Enqueue calls, Dequeue calls, and the
\* most false returns of a backoff.
BackoffProducers == 1
BackoffConsumers == 1
BackoffMaxEnq == 3
BackoffMaxDeq == 3
BackoffSpins == 2

\* The value of backoff() on its (n+1)-th invocation within a call: false
\* `spins` times, then true.
BackoffResult(n) == n >= spins

\* waiting = backoff();
Backoff(t) ==
    /\ pc[t] = "backoff"
    /\ waiting' = [waiting EXCEPT ![t] = BackoffResult(bcount[t])]
    /\ bcount' = [bcount EXCEPT ![t] = @ + 1]
    /\ pc' = [pc EXCEPT ![t] = "bo_load"]
    /\ UNCHANGED <<env0, queue, res, cur, fpc, fi, hist>>

\* current_ticket = slot.Load();
BackoffLoad(t) ==
    /\ pc[t] = "bo_load"
    /\ cur' = [cur EXCEPT ![t] = ticket[slot(t)]]
    /\ pc' = [pc EXCEPT ![t] = AfterLoad(t, ticket[slot(t)])]
    /\ UNCHANGED <<env, queue, res, fpc, fi, hist>>

BackoffStep(t) == Backoff(t) \/ BackoffLoad(t)

NextBackoff ==
    \/ \E t \in Threads : CallStep(t)
    \/ \E t \in Threads : RunStep(t)
    \/ \E t \in Threads : BackoffStep(t)
    \/ \E t \in Threads : Spurious(t)
    \/ FinishStore
    \/ FinishRun

InitBackoff ==
    \E wt \in WaitTypes, n \in 0..BackoffSpins :
        InitBackoffQueue(Config(2, wt, WideBits, 0, BackoffProducers, BackoffConsumers,
                                BackoffMaxEnq, BackoffMaxDeq), n)

\* Scheduling as in Fairness, the steps of the backoff overloads included.
FairnessBackoff ==
    /\ \A t \in Threads : SF_vars(RunStep(t) \/ BackoffStep(t))
    /\ SF_vars(FinishRun)

SpecBackoff == InitBackoff /\ [][NextBackoff]_vars /\ FairnessBackoff

\* C16: backoff escalation is one-way and preserves correctness.  Within a
\* call, WaitAndLoad is entered only after the backoff has returned true;
\* the backoff is not invoked again after it has returned true; a Dequeue
\* that returns true returns the value of its reservation and one that
\* returns false does so under Finish; and without Finish, equally many
\* Enqueue and Dequeue calls all complete and deliver every value.
C16_BackoffEscalation ==
    /\ [](\A t \in Threads :
            pc[t] = "wait" \/ InWaitAndLoad(t) => bcount[t] > spins)
    /\ [][\A t \in Threads : bcount'[t] = bcount[t] + 1 => bcount[t] <= spins]_vars
    /\ [](Pairing /\ C8_FalseOnlyAfterFinish)
    /\ (fpc = "idle" /\ Len(enqArg) = Len(deqRet))
          ~> (fpc # "idle" \/ Len(enqArg) # Len(deqRet) \/ AllDelivered)

\* A call whose backoff returned false BackoffSpins times and then true is
\* parked in its slot's WaitAndLoad, after two Dequeues returned true.
C16_Witness ==
    /\ spins = BackoffSpins
    /\ \E t \in Threads :
          /\ pc[t] \in {"fx_parked", "sy_parked"}
          /\ waiting[t] /\ bcount[t] = BackoffSpins + 1
    /\ \E k \in Calls(deqRet) : k >= 2 /\ deqRet[k] = "true"

\* -------------------------------------------------------------------- Empty
\* SpecEmpty: producers, consumers, Enqueue calls, Dequeue calls.
EmptyProducers == 1
EmptyConsumers == 1
EmptyMaxEnq == 3
EmptyMaxDeq == 3

\* Mutant: Empty compares with < instead of <=.
EmptyResultStrict(h, tl) == tl < h

\* return (tail <= head);
EmptyResult(h, tl) == tl <= h

\* int64_t head = head_.load(relaxed);
EmptyLoadHead ==
    /\ emp.pc = "idle"
    /\ emp' = [pc |-> "tail", head |-> head, ret |-> "none"]
    /\ UNCHANGED <<cfg, queue, pc, res, cur, fpc, fi, hist, ctor, spins, waiting, bcount>>

\* int64_t tail = tail_.load(relaxed); return (tail <= head);
EmptyLoadTail ==
    /\ emp.pc = "tail"
    /\ emp' = [pc |-> "idle", head |-> 0,
               ret |-> IF EmptyResult(emp.head, tail) THEN "true" ELSE "false"]
    /\ UNCHANGED <<cfg, queue, pc, res, cur, fpc, fi, hist, ctor, spins, waiting, bcount>>

NextEmpty == Next \/ EmptyLoadHead \/ EmptyLoadTail

InitEmpty ==
    \E wt \in WaitTypes :
        InitQueue(Config(2, wt, WideBits, 0, EmptyProducers, EmptyConsumers,
                         EmptyMaxEnq, EmptyMaxDeq))

SpecEmpty == InitEmpty /\ [][NextEmpty]_vars

\* Slots that hold a published value not yet consumed.
PublishedSlots == {i \in Slots : SlotOf(ticket[i]) = SlotOf(i + 1)}

\* No call is in progress and Finish has never been called.
Quiescent == AllIdle /\ fpc = "idle"

\* C19: Empty() agrees with the contents at quiescence.  In a quiescent
\* state tail - head is the number of slots holding a published value, and
\* an Empty() that returns there on the head it loaded returns true exactly
\* when that number is 0; while a consumer waits with head past tail,
\* Empty() returns true.
C19_EmptyAtQuiescence ==
    /\ [](Quiescent =>
            /\ tail - head = Cardinality(PublishedSlots)
            /\ EmptyResult(head, tail) <=> PublishedSlots = {})
    /\ [][emp.pc = "tail" /\ emp'.pc = "idle" /\ Quiescent /\ emp.head = head
            => (emp'.ret = "true" <=> PublishedSlots = {})]_vars
    /\ [][(/\ emp.pc = "tail" /\ emp'.pc = "idle" /\ emp.head = head
           /\ head > tail
           /\ \E t \in Threads : IsConsumer(t) /\ pc[t] # "idle")
            => emp'.ret = "true"]_vars

\* Empty() has returned true before, and a later Empty() has loaded head and
\* is about to load tail, at rest with two values stored.
C19_Witness ==
    /\ Quiescent
    /\ emp.pc = "tail" /\ emp.head = head
    /\ Cardinality(PublishedSlots) = 2
    /\ Len(deqRet) >= 1

====
